---- MODULE Spec2Model ----
(***************************************************************************)
(* ProductSync feedback pipeline: deduplicated ingestion, label            *)
(* assignment, incremental clustering, priority scoring and escalation.    *)
(*                                                                         *)
(* The model follows the worker and route code.  The Redis server, the     *)
(* relational store, the spaCy / transformer models and the JIRA REST API  *)
(* are collaborators: Redis commands and a SQL commit are atomic steps,    *)
(* the store holds the tables with the columns the workers read and write, *)
(* and model outputs (labels, embeddings) are inputs drawn from small      *)
(* sets.                                                                   *)
(***************************************************************************)
EXTENDS Integers, Sequences, FiniteSets, TLC

(***************************************************************************)
(* Bounds of the model.                                                    *)
(***************************************************************************)
MaxItems == 2            \* feedback rows, stored or still on their way to the store
MaxClaims == 2           \* successful SETNX calls remembered per dedup key

Producers == {"p1", "p2"}        \* concurrent producer requests (routes, bot)
IngestWorkers == {"iw1", "iw2"}         \* ingest worker processes

(***************************************************************************)
(* Program constants.                                                      *)
(***************************************************************************)
RetentionDays == 7       \* 7 * 24 * 3600 seconds, counted in days

Absent == 0              \* the key does not exist in Redis
NoExpiry == -1           \* the key exists and has no TTL yet
NULL == 0                \* a NULL integer column
NoScore == -1            \* priority_score IS NULL

Sources == {"discord", "slack"}
MsgIds == {"m1"}
Keys == [source : Sources, source_msg_id : MsgIds]
NoKey == [source |-> "", source_msg_id |-> ""]
Texts == {"", "Crash"}
NoPayload == [source |-> "", source_msg_id |-> "", text |-> ""]
Payloads == [source : Sources, source_msg_id : MsgIds, text : Texts]

VARIABLES
    redis_keys,      \* dupe:<source>:<id> -> Absent | NoExpiry | days to live
    queue,           \* the Redis list "ingest:feedback", head first
    producers,       \* producer requests in flight
    ingest,          \* ingest workers: position and popped payload
    feedback,        \* table feedback, row i has id i
    wins,            \* history: per key, the age in days of each SETNX that returned 1
                     \* less than RetentionDays ago
    rejected,        \* history: per key, a SETNX returned 0 since the key was stored
    submit_age,      \* history: per key, days since its first submission (-1: never)
    score_in,        \* the stored state one call of calculate_priority_score reads
    score_out,       \* what that call returned and persisted
    rescored,        \* history: the items scored again after their score was persisted
    feedback_label,  \* table feedback_label
    cluster,         \* table cluster, row i has id i
    nlu,             \* NLU workers: position, batch and loaded objects
    nlu_runs,        \* number of process_feedback calls of the NLU workers so far
    joins,           \* history: per cluster, the committed _update_cluster calls
    touched,         \* history: per item, a cluster was created or updated for it
    initiative,      \* table initiative, row i has id i
    created_for,     \* history: per initiative, the item whose escalation created it
    act,             \* actions workers: position, batch and loaded objects
    jira_epics,      \* epics created in JIRA so far; epic n has key n
    jira_comments,   \* comments added in JIRA: <<key, feedback id>>
    jira_labels,     \* label updates sent to JIRA: <<key, feedback id>>
    jira_enabled     \* ActionsWorker.jira_enabled

ingestVars == <<redis_keys, queue, producers, ingest, wins, rejected, submit_age>>
scoreVars == <<score_in, score_out, rescored>>
nluVars == <<feedback_label, cluster, nlu, nlu_runs, joins, touched>>
actVars == <<initiative, created_for, act, jira_epics, jira_comments, jira_labels, jira_enabled>>

vars == <<ingestVars, feedback, scoreVars, nluVars, actVars>>

\* What the producers, the ingest worker and the clock leave alone.
notIngest == <<scoreVars, nluVars, actVars>>

\* What a call of the priority scorer on given inputs leaves alone.
notScore == <<ingestVars, feedback, nluVars, actVars>>

\* What the NLU and priority workers leave alone.
notStore == <<ingestVars, scoreVars, actVars>>

\* What the actions workers and the resolve route leave alone.
notAct == <<ingestVars, scoreVars, cluster, nlu, nlu_runs, joins, touched>>

----------------------------------------------------------------------------
(***************************************************************************)
(* Redis commands.                                                         *)
(***************************************************************************)
KeyOf(payload) ==
    [source |-> payload.source, source_msg_id |-> payload.source_msg_id]

\* A SETNX that does not look at the key: it always stores and returns 1.
SetnxBlind(keys, k) == TRUE

\* SETNX key 1: returns 1 (and stores the key) iff the key does not exist.
Setnx(keys, k) == keys[k] = Absent

\* A claim that stores the key whether or not it exists (SET for SETNX).
AfterSet(keys, k) == [keys EXCEPT ![k] = NoExpiry]

AfterSetnx(keys, k) == IF Setnx(keys, k) THEN [keys EXCEPT ![k] = NoExpiry] ELSE keys

\* EXPIRE key ttl: sets the time to live of an existing key.
Expire(keys, k, days) == IF keys[k] = Absent THEN keys ELSE [keys EXCEPT ![k] = days]

\* LPUSH pushes at the head of the list; BLPOP pops the head.
Lpush(list, payload) == <<payload>> \o list

Age(a, d) == IF a + d > RetentionDays THEN RetentionDays ELSE a + d

\* One SETNX call on key k, with its result recorded in the history.
LogClaim(k) ==
    /\ Len(wins[k]) < MaxClaims
    /\ redis_keys' = AfterSetnx(redis_keys, k)
    /\ wins' = IF Setnx(redis_keys, k) THEN [wins EXCEPT ![k] = Append(@, 0)] ELSE wins
    /\ rejected' = [rejected EXCEPT ![k] = ~Setnx(redis_keys, k)]

----------------------------------------------------------------------------
(***************************************************************************)
(* Producers: the webhook routes and the bot command.  Each runs           *)
(* SETNX, then EXPIRE and LPUSH when the SETNX returned 1.                 *)
(***************************************************************************)
\* Messages on their way to the store.
InFlight ==
    Len(queue) + Cardinality({q \in Producers : producers[q].pc # "idle"})
               + Cardinality({w \in IngestWorkers : ingest[w].pc # "idle"})

ProducerClaim(p, source, id, text) ==
    LET k == [source |-> source, source_msg_id |-> id] IN
    /\ producers[p].pc = "idle"
    /\ InFlight + Len(feedback) < MaxItems
    /\ LogClaim(k)
    /\ producers' = [producers EXCEPT ![p] =
          IF Setnx(redis_keys, k)
          THEN [pc |-> "expire",
                payload |-> [source |-> source, source_msg_id |-> id, text |-> text]]
          ELSE [pc |-> "idle", payload |-> NoPayload]]
    /\ submit_age' = [submit_age EXCEPT ![k] = IF @ = -1 THEN 0 ELSE @]
    /\ UNCHANGED <<queue, ingest, feedback>>
    /\ UNCHANGED notIngest

slack_events(p) ==
    \E ts \in MsgIds, text \in Texts : ProducerClaim(p, "slack", ts, text)

discord_webhook(p) ==
    \E id \in MsgIds, text \in Texts : ProducerClaim(p, "discord", id, text)

add_feedback(p) ==
    \E id \in MsgIds, text \in Texts : ProducerClaim(p, "discord", id, text)

ProducerExpire(p) ==
    /\ producers[p].pc = "expire"
    /\ redis_keys' = Expire(redis_keys, KeyOf(producers[p].payload), RetentionDays)
    /\ producers' = [producers EXCEPT ![p].pc = "lpush"]
    /\ UNCHANGED <<queue, ingest, feedback, wins, rejected, submit_age>>
    /\ UNCHANGED notIngest

ProducerLpush(p) ==
    /\ producers[p].pc = "lpush"
    /\ queue' = Lpush(queue, producers[p].payload)
    /\ producers' = [producers EXCEPT ![p] = [pc |-> "idle", payload |-> NoPayload]]
    /\ UNCHANGED <<redis_keys, ingest, feedback, wins, rejected, submit_age>>
    /\ UNCHANGED notIngest

----------------------------------------------------------------------------
(***************************************************************************)
(* Ingest worker.                                                          *)
(***************************************************************************)
\* TextPreprocessor.preprocess: blank text gives "", other text is cleaned.
preprocess(text) == IF text = "" THEN "" ELSE "crash"

\* The feedback table declares no unique constraint on (source, source_msg_id).
UniqueViolation(rows, row) == FALSE

\* A row that stores the text as it came in.
NewFeedbackRaw(payload) ==
    [source |-> payload.source,
     source_msg_id |-> payload.source_msg_id,
     text_clean |-> payload.text,
     priority_score |-> NoScore,
     cluster_id |-> NULL,
     status |-> "new",
     created_age |-> 0]

NewFeedback(payload) ==
    [source |-> payload.source,
     source_msg_id |-> payload.source_msg_id,
     text_clean |-> preprocess(payload.text),
     priority_score |-> NoScore,
     cluster_id |-> NULL,
     status |-> "new",
     created_age |-> 0]

IngestBlpop(w) ==
    /\ ingest[w].pc = "idle"
    /\ queue # <<>>
    /\ ingest' = [ingest EXCEPT ![w] = [pc |-> "setnx", payload |-> Head(queue)]]
    /\ queue' = Tail(queue)
    /\ UNCHANGED <<redis_keys, producers, feedback, wins, rejected, submit_age>>
    /\ UNCHANGED notIngest

IngestSetnx(w) ==
    LET k == KeyOf(ingest[w].payload) IN
    /\ ingest[w].pc = "setnx"
    /\ LogClaim(k)
    /\ ingest' = [ingest EXCEPT ![w] =
          IF Setnx(redis_keys, k)
          THEN [@ EXCEPT !.pc = "expire"]
          ELSE [pc |-> "idle", payload |-> NoPayload]]
    /\ UNCHANGED <<queue, producers, feedback, submit_age>>
    /\ UNCHANGED notIngest

IngestExpire(w) ==
    /\ ingest[w].pc = "expire"
    /\ redis_keys' = Expire(redis_keys, KeyOf(ingest[w].payload), RetentionDays)
    /\ ingest' = [ingest EXCEPT ![w].pc = "commit"]
    /\ UNCHANGED <<queue, producers, feedback, wins, rejected, submit_age>>
    /\ UNCHANGED notIngest

IngestCommit(w) ==
    LET row == NewFeedback(ingest[w].payload) IN
    /\ ingest[w].pc = "commit"
    /\ feedback' = IF UniqueViolation(feedback, row) THEN feedback
                   ELSE Append(feedback, row)
    /\ ingest' = [ingest EXCEPT ![w] = [pc |-> "idle", payload |-> NoPayload]]
    /\ UNCHANGED <<redis_keys, queue, producers, wins, rejected, submit_age>>
    /\ UNCHANGED notIngest

\* process_feedback when the commit raises (the database is unavailable):
\* rollback, return False; run goes on with the next BLPOP.
IngestCommitFails(w) ==
    /\ ingest[w].pc = "commit"
    /\ ingest' = [ingest EXCEPT ![w] = [pc |-> "idle", payload |-> NoPayload]]
    /\ UNCHANGED <<redis_keys, queue, producers, feedback, wins, rejected, submit_age>>
    /\ UNCHANGED notIngest

\* run when KeyboardInterrupt is raised in the worker's process: the
\* exception is raised at the statement being executed, inside BLPOP or
\* inside process_feedback, whose "except Exception" does not catch it; run's
\* handler breaks out of the loop, closes the session, which discards what
\* was not committed, and closes the Redis client.
IngestInterrupt(w) ==
    /\ ingest[w].pc # "stopped"
    /\ ingest' = [ingest EXCEPT ![w] = [pc |-> "stopped", payload |-> NoPayload]]
    /\ UNCHANGED <<redis_keys, queue, producers, feedback, wins, rejected, submit_age>>
    /\ UNCHANGED notIngest

----------------------------------------------------------------------------
(***************************************************************************)
(* Time: d days pass.  Redis deletes the keys whose TTL has run out.       *)
(***************************************************************************)
TickDays == {RetentionDays}

\* Days since created_at, as far as the scorer's two 7-day windows tell apart.
CreatedAge(a, d) == IF a + d > 2 * RetentionDays THEN 2 * RetentionDays ELSE a + d

Ttl(t, d) == IF t \in {Absent, NoExpiry} THEN t ELSE IF t > d THEN t - d ELSE Absent

Tick ==
    \E d \in TickDays :
    /\ redis_keys' = [k \in Keys |-> Ttl(redis_keys[k], d)]
    /\ wins' = [k \in Keys |->
          SelectSeq([i \in DOMAIN wins[k] |-> Age(wins[k][i], d)],
                    LAMBDA a : a < RetentionDays)]
    /\ rejected' = [k \in Keys |-> rejected[k] /\ redis_keys'[k] # Absent]
    /\ submit_age' = [k \in Keys |->
          IF submit_age[k] = -1 THEN -1 ELSE Age(submit_age[k], d)]
    /\ feedback' = [i \in DOMAIN feedback |->
          [feedback[i] EXCEPT !.created_age = CreatedAge(@, d)]]
    /\ UNCHANGED <<queue, producers, ingest>>
    /\ UNCHANGED notIngest

----------------------------------------------------------------------------
(***************************************************************************)
(* Priority scorer.  Scores, weights and signals are fixed-point numbers   *)
(* with three decimals (1000 stands for 1.0); divisions round down.        *)
(***************************************************************************)
MaxLabelRows == 2        \* feedback_label rows of one item

Labels == {"security", "bug/crash", "docs"}
ScoreLevels == {0, 600, 1000}
LabelRows == [label : Labels, score : ScoreLevels]

Min(a, b) == IF a < b THEN a ELSE b
Max(a, b) == IF a > b THEN a ELSE b

RECURSIVE SeqSum(_)
SeqSum(q) == IF q = <<>> THEN 0 ELSE Head(q) + SeqSum(Tail(q))

RECURSIVE SeqMax(_)
SeqMax(q) == IF q = <<>> THEN 0 ELSE Max(Head(q), SeqMax(Tail(q)))

\* Largest r with r * r <= n, by bisection on lo..hi.
RECURSIVE SqrtIn(_, _, _)
SqrtIn(n, lo, hi) ==
    IF lo >= hi THEN lo
    ELSE LET mid == (lo + hi + 1) \div 2 IN
         IF mid * mid <= n THEN SqrtIn(n, mid, hi) ELSE SqrtIn(n, lo, mid - 1)

\* The weights of PriorityWorker.__init__.
WeightSeverity == 300
WeightReach == 250
WeightNovelty == 200
WeightMomentum == 150
WeightConfidence == 100

ErrorDefault == 500      \* what a signal returns when its computation raises

\* The branch of the label rule chain a label name takes.
LabelSeverity(name) ==
    CASE name = "bug/crash" -> 900
      [] name = "bug/performance" -> 700
      [] name = "security" -> 950
      [] name = "ux/usability" -> 400
      [] name \in {"feature/roadmap", "feature/quality-of-life"} -> 300
      [] name = "docs" -> 200
      [] OTHER -> 0

\* severity_indicators: the score of a keyword found in the lowered text.
KeywordSeverity(word) ==
    CASE word \in {"crash", "critical"} -> 900
      [] word \in {"broken", "freeze", "urgent", "blocking"} -> 800
      [] word \in {"error", "fail"} -> 700
      [] word \in {"slow", "lag", "bug"} -> 600
      [] OTHER -> 0

\* A clean text, by what the scorer reads of it: whether the column is
\* NULL, the indicator words it contains and its length.
NullText == [null |-> TRUE, words |-> <<>>, length |-> 0]
CleanTexts ==
    {NullText,
     [null |-> FALSE, words |-> <<>>, length |-> 0],
     [null |-> FALSE, words |-> <<"crash">>, length |-> 9],
     [null |-> FALSE, words |-> <<"slow", "error">>, length |-> 250]}

\* A severity that lets the keywords of the text override the labels.
SeverityByText(rows, text) ==
    IF text.null THEN ErrorDefault
    ELSE LET byLabel == SeqMax([i \in DOMAIN rows |-> LabelSeverity(rows[i].label)])
             byWord == SeqMax([i \in DOMAIN text.words |-> KeywordSeverity(text.words[i])])
         IN  Min(IF text.words # <<>> THEN byWord ELSE byLabel, 1000)

\* _calculate_severity
Severity(rows, text) ==
    IF text.null THEN ErrorDefault
    ELSE LET byLabel == SeqMax([i \in DOMAIN rows |-> LabelSeverity(rows[i].label)])
             byWord == SeqMax([i \in DOMAIN text.words |-> KeywordSeverity(text.words[i])])
         IN  Min(Max(byLabel, byWord), 1000)

\* channel_weights.get(source, 0.5)
ChannelWeight(source) ==
    CASE source = "slack" -> 600
      [] source = "discord" -> 1000
      [] source = "notion" -> 800
      [] OTHER -> 500

UserWeight == 800

\* The cluster of the scored item: "none" (cluster_id NULL), "missing" (no
\* such row) or "found" with its size.
NoCluster == [ref |-> "none", size |-> 0]
MissingCluster == [ref |-> "missing", size |-> 0]
FoundCluster(size) == [ref |-> "found", size |-> size]

\* _calculate_reach
Reach(source, c) ==
    IF c.ref = "missing" THEN ErrorDefault
    ELSE LET dedup_multiplier ==
                 IF c.ref = "found" THEN Min(c.size * 100, 2000) ELSE 1000
         IN  Min((ChannelWeight(source) * dedup_multiplier * UserWeight) \div 1000000,
                 1000)

\* _calculate_novelty: without a cluster it returns before its query, so
\* only the query of a clustered item can raise.
Novelty(c, resolved_count, raises) ==
    IF c.ref = "none" THEN 1000
    ELSE IF raises THEN ErrorDefault
    ELSE 1000 \div (1 + resolved_count)

\* A momentum without the clamp of the growth rate.
MomentumUnclamped(c, recent_count, previous_count, raises) ==
    IF c.ref = "none" THEN 1000
    ELSE IF raises THEN ErrorDefault
    ELSE IF previous_count = 0 THEN (IF recent_count > 0 THEN 1000 ELSE 0)
    ELSE ((((1000 * (recent_count - previous_count)) \div previous_count) + 500) * 1000)
            \div 1500

\* _calculate_momentum
Momentum(c, recent_count, previous_count, raises) ==
    IF c.ref = "none" THEN 1000
    ELSE IF raises THEN ErrorDefault
    ELSE IF previous_count = 0 THEN (IF recent_count > 0 THEN 1000 ELSE 0)
    ELSE LET growth_rate == (1000 * (recent_count - previous_count)) \div previous_count
             clamped == Min(Max(growth_rate, -500), 1000)
         IN  ((clamped + 500) * 1000) \div 1500

\* np.mean and np.std (population) of the label scores.
Mean(q) == SeqSum(q) \div Len(q)
Std(q) ==
    LET m == Mean(q)
        sq == SeqSum([i \in DOMAIN q |-> (q[i] - m) * (q[i] - m)]) \div Len(q)
    IN  SqrtIn(sq, 0, 1000)

\* _calculate_confidence
Confidence(rows, text, raises) ==
    IF raises THEN ErrorDefault
    ELSE LET scores == [i \in DOMAIN rows |-> rows[i].score]
             model_confidence == IF scores # <<>> THEN Mean(scores) ELSE 500
             text_length == IF text.null THEN 0 ELSE text.length
             length_confidence == Min(text_length * 10, 1000)
             agreement_confidence == IF Len(scores) > 1 THEN 1000 - Std(scores) ELSE 500
         IN  (500 * model_confidence + 300 * length_confidence
                + 200 * agreement_confidence) \div 1000

\* A weighting with the severity weight doubled (the weights sum to 1.3).
WeightedSumHeavy(severity, reach, novelty, momentum, confidence) ==
    (2 * WeightSeverity * severity + WeightReach * reach + WeightNovelty * novelty
       + WeightMomentum * momentum + WeightConfidence * confidence) \div 1000

\* The weighted combination of calculate_priority_score.
WeightedSum(severity, reach, novelty, momentum, confidence) ==
    (WeightSeverity * severity + WeightReach * reach + WeightNovelty * novelty
       + WeightMomentum * momentum + WeightConfidence * confidence) \div 1000

\* calculate_priority_score on the state `in` describes.
PriorityScore(in) ==
    WeightedSum(Severity(in.rows, in.text),
                Reach(in.source, in.cluster),
                Novelty(in.cluster, in.resolved_count, in.raises = "novelty"),
                Momentum(in.cluster, in.recent_count, in.previous_count,
                         in.raises = "momentum"),
                Confidence(in.rows, in.text, in.raises = "confidence"))

RowSeqs == UNION {[1..n -> LabelRows] : n \in 0..MaxLabelRows}

\* The states of one item and its cluster the scorer is called on.
ScoreInputs ==
    [rows : RowSeqs,
     text : CleanTexts,
     source : {"discord", "slack", "email"},
     cluster : {NoCluster, MissingCluster, FoundCluster(1), FoundCluster(11),
                FoundCluster(30)},
     resolved_count : {0, 2},
     recent_count : {0, 3, 5},
     previous_count : {0, 2},
     raises : {"none", "novelty", "momentum", "confidence"}]

NoInput ==
    [rows |-> <<>>, text |-> NullText, source |-> "", cluster |-> NoCluster,
     resolved_count |-> 0, recent_count |-> 0, previous_count |-> 0, raises |-> "idle"]

\* One call of calculate_priority_score on the inputs of score_in: the score
\* is computed and persisted.
ScoreCall ==
    /\ score_out = NoScore
    /\ score_out' = PriorityScore(score_in)
    /\ UNCHANGED <<score_in, rescored>>
    /\ UNCHANGED notScore

----------------------------------------------------------------------------
(***************************************************************************)
(* The store as the NLU, priority and actions workers find it.             *)
(***************************************************************************)
MaxFeedback == 2         \* feedback rows in the store
MaxRuns == 3             \* process_feedback calls of the NLU workers

NluWorkers == {"n1", "n2"}

\* Clean texts of stored items.
StoredTexts == {"", "crash", "app crash", "slow"}

\* What the scorer reads of a stored clean text.
TextInfo(text) ==
    CASE text = "" -> [null |-> FALSE, words |-> <<>>, length |-> 0]
      [] text = "crash" -> [null |-> FALSE, words |-> <<"crash">>, length |-> 5]
      [] text = "app crash" -> [null |-> FALSE, words |-> <<"crash">>, length |-> 9]
      [] text = "slow" -> [null |-> FALSE, words |-> <<"slow">>, length |-> 4]

\* TextClassifier.classify: the labels and scores the model gives a text.
classify(text) ==
    CASE text = "crash" -> <<[label |-> "bug/crash", score |-> 1000]>>
      [] text = "app crash" -> <<[label |-> "bug/crash", score |-> 600]>>
      [] text = "slow" -> <<[label |-> "docs", score |-> 600]>>
      [] OTHER -> <<>>

\* TextEmbedder.embed_text: the embedding of a text; zeros for a blank text.
embed_text(text) ==
    CASE text = "crash" -> <<1, 0>>
      [] text = "app crash" -> <<1, 1>>
      [] text = "slow" -> <<0, 1>>
      [] OTHER -> <<0, 0>>

(***************************************************************************)
(* Embeddings are integer vectors; a centroid is the vector centroid       *)
(* divided by 2^scale, so that halving is exact.                           *)
(***************************************************************************)
Dot(a, b) == a[1] * b[1] + a[2] * b[2]

RECURSIVE Pow2(_)
Pow2(n) == IF n = 0 THEN 1 ELSE 2 * Pow2(n - 1)

\* cos(a, b) > cos(a, c), for the cosine similarity of TextEmbedder.similarity
\* (the cosine of a zero vector is 0).
CosGreater(a, b, c) ==
    LET l == Dot(a, b) * Dot(a, b) * Dot(c, c) * (IF Dot(a, b) < 0 THEN -1 ELSE 1)
        r == Dot(a, c) * Dot(a, c) * Dot(b, b) * (IF Dot(a, c) < 0 THEN -1 ELSE 1)
    IN  IF Dot(b, b) = 0 THEN Dot(a, c) < 0
        ELSE IF Dot(c, c) = 0 THEN Dot(a, b) > 0
        ELSE l > r

\* cos(a, b) > 0
CosPositive(a, b) == Dot(a, b) > 0

\* cos(a, b) > similarity_threshold, with similarity_threshold = 0.7
CosAboveThreshold(a, b) ==
    /\ Dot(a, b) > 0
    /\ 100 * Dot(a, b) * Dot(a, b) > 49 * Dot(a, a) * Dot(b, b)

NoRow == [centroid |-> <<0, 0>>, scale |-> 0, size |-> 0]

\* The loop of _assign_to_cluster over the rows from index i on: the id of
\* the row with the greatest similarity, the first of them when several tie,
\* or `best` when no later row is more similar.
\* The rows are visited in the order the query returned them: `order` is the
\* sequence of their ids.
RECURSIVE BestFrom(_, _, _, _, _)
BestFrom(rows, e, order, i, best) ==
    IF i > Len(order) THEN best
    ELSE LET id == order[i]
             better == IF best = 0 THEN CosPositive(e, rows[id].centroid)
                       ELSE CosGreater(e, rows[id].centroid, rows[best].centroid)
         IN  BestFrom(rows, e, order, i + 1, IF better THEN id ELSE best)

\* The ids of the rows of a table, in id order.
Ids(rows) == [i \in 1..Len(rows) |-> i]

\* The orders in which db.query(Cluster).all(), a query without ORDER BY, can
\* return n rows.
Orders(n) == {order \in [1..n -> 1..n] : \A i, j \in 1..n : i # j => order[i] # order[j]}

\* The cluster _assign_to_cluster joins, or 0 when it creates one, when the
\* query returned the rows in the given order.
AssignTargetIn(rows, e, order) ==
    LET best == BestFrom(rows, e, order, 1, 0) IN
    IF best # 0 /\ CosAboveThreshold(e, rows[best].centroid) THEN best ELSE 0

\* The same when the query returned the rows in id order.
AssignTarget(rows, e) == AssignTargetIn(rows, e, Ids(rows))

\* _create_cluster
CreatedCluster(e) == [centroid |-> e, scale |-> 0, size |-> 1]

\* A centroid in lowest terms.
RECURSIVE Lowest(_)
Lowest(row) ==
    IF row.scale > 0 /\ row.centroid[1] % 2 = 0 /\ row.centroid[2] % 2 = 0
    THEN Lowest([row EXCEPT !.centroid = <<@[1] \div 2, @[2] \div 2>>,
                            !.scale = @ - 1])
    ELSE row

\* _update_cluster on the loaded row: (old_embedding + new_embedding) / 2 and
\* size + 1.
UpdatedCluster(row, e) ==
    Lowest([centroid |-> <<row.centroid[1] + Pow2(row.scale) * e[1],
                           row.centroid[2] + Pow2(row.scale) * e[2]>>,
            scale |-> row.scale + 1,
            size |-> row.size + 1])

NluRest == [pc |-> "idle", batch |-> <<>>, fid |-> 0, target |-> 0, loaded |-> NoRow,
            cid |-> 0]

\* NLUWorker.run: the query for feedback in status new with a clean text.
NluQuery(w) ==
    LET unprocessed == SelectSeq(Ids(feedback), LAMBDA i : feedback[i].status = "new") IN
    /\ nlu[w].pc = "idle"
    /\ nlu_runs < MaxRuns
    /\ unprocessed # <<>>
    /\ nlu' = [nlu EXCEPT ![w] = [NluRest EXCEPT !.pc = "loop", !.batch = unprocessed]]
    /\ UNCHANGED <<feedback, feedback_label, cluster, nlu_runs, joins, touched>>
    /\ UNCHANGED notStore

\* NLUWorker.run: the batch is done.
NluBatchDone(w) ==
    /\ nlu[w].pc = "loop"
    /\ nlu[w].batch = <<>>
    /\ nlu' = [nlu EXCEPT ![w] = NluRest]
    /\ UNCHANGED <<feedback, feedback_label, cluster, nlu_runs, joins, touched>>
    /\ UNCHANGED notStore

\* process_feedback: load the item; an item without clean text is skipped.
NluLoad(w) ==
    LET id == Head(nlu[w].batch) IN
    /\ nlu[w].pc = "loop"
    /\ nlu[w].batch # <<>>
    /\ nlu_runs < MaxRuns
    /\ nlu_runs' = nlu_runs + 1
    /\ nlu' = [nlu EXCEPT ![w] =
          IF feedback[id].text_clean = ""
          THEN [NluRest EXCEPT !.pc = "loop", !.batch = Tail(nlu[w].batch)]
          ELSE [NluRest EXCEPT !.pc = "labels", !.batch = Tail(nlu[w].batch),
                               !.fid = id]]
    /\ UNCHANGED <<feedback, feedback_label, cluster, joins, touched>>
    /\ UNCHANGED notStore

\* process_feedback steps 1 and 2: classify, _store_labels (one commit).
NluStoreLabels(w) ==
    LET id == nlu[w].fid
        rows == classify(feedback[id].text_clean)
    IN
    /\ nlu[w].pc = "labels"
    /\ feedback_label' = feedback_label \o
          [i \in DOMAIN rows |->
              [feedback_id |-> id, label |-> rows[i].label, score |-> rows[i].score]]
    /\ nlu' = [nlu EXCEPT ![w].pc = "assign"]
    /\ UNCHANGED <<feedback, cluster, nlu_runs, joins, touched>>
    /\ UNCHANGED notStore

\* _assign_to_cluster: query the clusters and pick the one to join.
NluReadClusters(w) ==
    LET e == embed_text(feedback[nlu[w].fid].text_clean) IN
    /\ nlu[w].pc = "assign"
    /\ \E order \in Orders(Len(cluster)) :
          LET best == AssignTargetIn(cluster, e, order) IN
          nlu' = [nlu EXCEPT ![w].pc = "write", ![w].target = best,
                             ![w].loaded = IF best = 0 THEN NoRow ELSE cluster[best]]
    /\ UNCHANGED <<feedback, feedback_label, cluster, nlu_runs, joins, touched>>
    /\ UNCHANGED notStore

\* _assign_to_cluster hands the stored centroid array to
\* TextEmbedder.similarity, whose embed_text tests `not text`: on an array of
\* more than one element that test raises.  The exception leaves
\* process_feedback through its handler (rollback, return False) after the
\* labels were committed.  NluReadClusters is the outcome with an embedder
\* that takes the array; this is the outcome with the embedder of the source.
NluSimilarityRaises(w) ==
    /\ nlu[w].pc = "assign"
    /\ cluster # <<>>
    /\ nlu' = [nlu EXCEPT ![w] = [NluRest EXCEPT !.pc = "loop", !.batch = nlu[w].batch]]
    /\ UNCHANGED <<feedback, feedback_label, cluster, nlu_runs, joins, touched>>
    /\ UNCHANGED notStore

\* _create_cluster or _update_cluster: the commit of the cluster row.
NluWriteCluster(w) ==
    LET e == embed_text(feedback[nlu[w].fid].text_clean)
        c == nlu[w].target
    IN
    /\ nlu[w].pc = "write"
    /\ IF c = 0
       THEN /\ cluster' = Append(cluster, CreatedCluster(e))
            /\ joins' = Append(joins, 0)
            /\ nlu' = [nlu EXCEPT ![w].pc = "setcid", ![w].cid = Len(cluster) + 1]
       ELSE /\ cluster' = [cluster EXCEPT ![c] = UpdatedCluster(nlu[w].loaded, e)]
            /\ joins' = [joins EXCEPT ![c] = @ + 1]
            /\ nlu' = [nlu EXCEPT ![w].pc = "setcid", ![w].cid = c]
    /\ touched' = touched \cup {nlu[w].fid}
    /\ UNCHANGED <<feedback, feedback_label, nlu_runs>>
    /\ UNCHANGED notStore

\* process_feedback step 4: feedback.cluster_id = cluster_id, commit.
NluSetClusterId(w) ==
    /\ nlu[w].pc = "setcid"
    /\ feedback' = [feedback EXCEPT ![nlu[w].fid].cluster_id = nlu[w].cid]
    /\ nlu' = [nlu EXCEPT ![w] = [NluRest EXCEPT !.pc = "loop", !.batch = nlu[w].batch]]
    /\ UNCHANGED <<feedback_label, cluster, nlu_runs, joins, touched>>
    /\ UNCHANGED notStore

\* A failure that ends the batch of the worker.
NluFailEndsBatch(w) ==
    /\ nlu[w].pc \in {"labels", "assign", "write", "setcid"}
    /\ nlu' = [nlu EXCEPT ![w] = NluRest]
    /\ UNCHANGED <<feedback, feedback_label, cluster, nlu_runs, joins, touched>>
    /\ UNCHANGED notStore

\* An exception while process_feedback runs (the store is unavailable, a
\* model call raises): rollback of what is not committed, return False.
NluFail(w) ==
    /\ nlu[w].pc \in {"labels", "assign", "write", "setcid"}
    /\ nlu' = [nlu EXCEPT ![w] = [NluRest EXCEPT !.pc = "loop", !.batch = nlu[w].batch]]
    /\ UNCHANGED <<feedback, feedback_label, cluster, nlu_runs, joins, touched>>
    /\ UNCHANGED notStore

\* The steps of an NLU worker whose embedder takes the centroid array.
NluStepCosine(w) ==
    \/ NluQuery(w)
    \/ NluLoad(w)
    \/ NluStoreLabels(w)
    \/ NluReadClusters(w)
    \/ NluWriteCluster(w)
    \/ NluSetClusterId(w)
    \/ NluBatchDone(w)

NluStep(w) ==
    \/ NluQuery(w)
    \/ NluLoad(w)
    \/ NluStoreLabels(w)
    \/ NluReadClusters(w)
    \/ NluSimilarityRaises(w)
    \/ NluWriteCluster(w)
    \/ NluSetClusterId(w)
    \/ NluBatchDone(w)

----------------------------------------------------------------------------
(***************************************************************************)
(* Priority worker on the store.                                           *)
(***************************************************************************)
InCluster(c) == {i \in DOMAIN feedback : feedback[i].cluster_id = c}

\* A scorer whose novelty counts the scored items of the cluster instead of
\* the resolved ones.
ScoreInputFromScored(feedback_rows, cluster_rows, label_rows, id) ==
    LET f == feedback_rows[id]
        mine == SelectSeq(label_rows, LAMBDA r : r.feedback_id = id)
        same == {i \in DOMAIN feedback_rows : feedback_rows[i].cluster_id = f.cluster_id}
    IN
    [rows |-> [i \in DOMAIN mine |-> [label |-> mine[i].label, score |-> mine[i].score]],
     text |-> TextInfo(f.text_clean),
     source |-> f.source,
     cluster |-> IF f.cluster_id = NULL THEN NoCluster
                 ELSE IF f.cluster_id \notin DOMAIN cluster_rows THEN MissingCluster
                 ELSE FoundCluster(cluster_rows[f.cluster_id].size),
     resolved_count |-> Cardinality({i \in same : feedback_rows[i].priority_score # NoScore}),
     recent_count |->
         Cardinality({i \in same : feedback_rows[i].created_age < RetentionDays}),
     previous_count |->
         Cardinality({i \in same : /\ feedback_rows[i].created_age >= RetentionDays
                                   /\ feedback_rows[i].created_age < 2 * RetentionDays}),
     raises |-> "none"]

\* What calculate_priority_score reads of the tables for item id.
ScoreInputFrom(feedback_rows, cluster_rows, label_rows, id) ==
    LET f == feedback_rows[id]
        mine == SelectSeq(label_rows, LAMBDA r : r.feedback_id = id)
        same == {i \in DOMAIN feedback_rows : feedback_rows[i].cluster_id = f.cluster_id}
    IN
    [rows |-> [i \in DOMAIN mine |-> [label |-> mine[i].label, score |-> mine[i].score]],
     text |-> TextInfo(f.text_clean),
     source |-> f.source,
     cluster |-> IF f.cluster_id = NULL THEN NoCluster
                 ELSE IF f.cluster_id \notin DOMAIN cluster_rows THEN MissingCluster
                 ELSE FoundCluster(cluster_rows[f.cluster_id].size),
     resolved_count |-> Cardinality({i \in same : feedback_rows[i].status = "resolved"}),
     recent_count |->
         Cardinality({i \in same : feedback_rows[i].created_age < RetentionDays}),
     previous_count |->
         Cardinality({i \in same : /\ feedback_rows[i].created_age >= RetentionDays
                                   /\ feedback_rows[i].created_age < 2 * RetentionDays}),
     raises |-> "none"]

ScoreInputOf(id) == ScoreInputFrom(feedback, cluster, feedback_label, id)

\* PriorityWorker.run and calculate_priority_score for one item without a
\* score: the score is computed from the store and committed.
PriorityRun ==
    \E id \in DOMAIN feedback :
        /\ feedback[id].priority_score = NoScore
        /\ feedback' = [feedback EXCEPT ![id].priority_score =
                            PriorityScore(ScoreInputOf(id))]
        /\ UNCHANGED nluVars
        /\ UNCHANGED notStore

\* calculate_priority_score called again on an item that has its score (the
\* item was in the batch of a second priority worker, or the call is
\* retried): the score is computed from the store and committed.
PriorityRetry ==
    \E id \in DOMAIN feedback \ rescored :
        /\ feedback[id].priority_score # NoScore
        /\ feedback' = [feedback EXCEPT ![id].priority_score =
                            PriorityScore(ScoreInputOf(id))]
        /\ rescored' = rescored \cup {id}
        /\ UNCHANGED <<score_in, score_out>>
        /\ UNCHANGED <<ingestVars, nluVars, actVars>>

----------------------------------------------------------------------------
(***************************************************************************)
(* Actions worker and the resolve route.                                   *)
(***************************************************************************)
ActionsWorkers == {"a1", "a2"}

JiraThreshold == 700     \* JIRA_THRESHOLD, default "0.7"

\* An initiative that is born with a key.
NewInitiativeKeyed(cluster_id) == [cluster_id |-> cluster_id, jira_key |-> 1]

\* Initiative(status='new', cluster_id=feedback.cluster_id), no key yet.
NewInitiative(cluster_id) == [cluster_id |-> cluster_id, jira_key |-> NULL]

ActRest == [pc |-> "idle", batch |-> <<>>, fid |-> 0, cluster_id |-> NULL,
            init |-> 0, key |-> NULL]

\* _check_cluster_momentum_spike: the items of the cluster created in the
\* last day against twice the average of the count of those created in the
\* last week (one group: the average of the count is the count).
check_cluster_momentum_spike(cluster_id) ==
    LET recent_count ==
            Cardinality({i \in InCluster(cluster_id) : feedback[i].created_age < 1})
        weekly_avg ==
            Cardinality({i \in InCluster(cluster_id) :
                            feedback[i].created_age < RetentionDays})
    IN  recent_count > weekly_avg * 2

\* A decision that does not look at the configuration.
should_create_jira_unconfigured(f) ==
    f.priority_score # NoScore /\ f.priority_score > JiraThreshold

\* _should_create_jira on the loaded item.
should_create_jira(f) ==
    IF ~jira_enabled THEN FALSE
    ELSE IF f.priority_score # NoScore /\ f.priority_score # 0
            /\ f.priority_score > JiraThreshold THEN TRUE
    ELSE IF f.cluster_id # NULL THEN check_cluster_momentum_spike(f.cluster_id)
    ELSE FALSE

\* _update_jira_labels: the label updates it sends.  Its query names
\* FeedbackLabel, which actions_worker.py does not import: the NameError is
\* caught by the except of the function, and no request is sent.
update_jira_labels(jira_key, feedback_id) == {}

\* A lookup that finds no initiative.
FirstInitiativeNone(rows, cluster_id) == 0

\* .filter(Initiative.cluster_id == cluster_id).first(): the id of the row,
\* 0 when there is none.
FirstInitiative(rows, cluster_id) ==
    LET found == SelectSeq(Ids(rows), LAMBDA i : rows[i].cluster_id = cluster_id) IN
    IF found = <<>> THEN 0 ELSE Head(found)

\* ActionsWorker.run: the query for scored feedback in status new.
ActQuery(a) ==
    LET actionable ==
            SelectSeq(Ids(feedback), LAMBDA i : /\ feedback[i].status = "new"
                                                /\ feedback[i].priority_score # NoScore)
    IN
    /\ act[a].pc = "idle"
    /\ actionable # <<>>
    /\ act' = [act EXCEPT ![a] = [ActRest EXCEPT !.pc = "loop", !.batch = actionable]]
    /\ UNCHANGED <<feedback, feedback_label, initiative, created_for, jira_epics,
                   jira_comments, jira_labels,
                   jira_enabled>>
    /\ UNCHANGED notAct

\* ActionsWorker.run: the batch is done.
ActBatchDone(a) ==
    /\ act[a].pc = "loop"
    /\ act[a].batch = <<>>
    /\ act' = [act EXCEPT ![a] = ActRest]
    /\ UNCHANGED <<feedback, feedback_label, initiative, created_for, jira_epics,
                   jira_comments, jira_labels,
                   jira_enabled>>
    /\ UNCHANGED notAct

\* process_actions: load the item and decide with _should_create_jira.
ActLoad(a) ==
    LET id == Head(act[a].batch)
        f == feedback[id]
    IN
    /\ act[a].pc = "loop"
    /\ act[a].batch # <<>>
    /\ act' = [act EXCEPT ![a] =
          [ActRest EXCEPT !.pc = IF should_create_jira(f) THEN "lookup" ELSE "triage",
                          !.batch = Tail(act[a].batch),
                          !.fid = id,
                          !.cluster_id = f.cluster_id]]
    /\ UNCHANGED <<feedback, feedback_label, initiative, created_for, jira_epics,
                   jira_comments, jira_labels,
                   jira_enabled>>
    /\ UNCHANGED notAct

\* _should_create_jira reaches the spike check for the item: JIRA is
\* configured, the score is not above the threshold, the item has a cluster.
SpikeChecked(f) ==
    /\ jira_enabled
    /\ ~(f.priority_score # NoScore /\ f.priority_score # 0
         /\ f.priority_score > JiraThreshold)
    /\ f.cluster_id # NULL

\* process_actions on a database that rejects the nested aggregate of the
\* spike check and, as PostgreSQL does, refuses every statement of the
\* transaction after the failed one: the check logs the error and returns
\* False, the commit of status = 'triaged' fails, process_actions rolls back
\* and returns False, and run goes on with the next item.  ActLoad is the
\* outcome on a database that keeps the transaction usable.
ActSpikeAborts(a) ==
    /\ act[a].pc = "loop"
    /\ act[a].batch # <<>>
    /\ SpikeChecked(feedback[Head(act[a].batch)])
    /\ act' = [act EXCEPT ![a] = [ActRest EXCEPT !.pc = "loop",
                                                 !.batch = Tail(act[a].batch)]]
    /\ UNCHANGED <<feedback, feedback_label, initiative, created_for, jira_epics, jira_comments,
                   jira_labels, jira_enabled>>
    /\ UNCHANGED notAct

\* _create_jira_issue: look the initiative of the cluster up; with one that
\* has a key, _update_jira_issue adds a comment; with one that has no key,
\* _update_jira_issue returns; with none, _create_new_initiative follows.
ActLookup(a) ==
    LET existing == IF act[a].cluster_id = NULL THEN 0
                    ELSE FirstInitiative(initiative, act[a].cluster_id)
    IN
    /\ act[a].pc = "lookup"
    /\ IF existing = 0
       THEN /\ act' = [act EXCEPT ![a].pc = "create"]
            /\ UNCHANGED <<jira_comments, jira_labels>>
       ELSE /\ act' = [act EXCEPT ![a].pc = "triage"]
            /\ jira_comments' =
                  IF initiative[existing].jira_key = NULL THEN jira_comments
                  ELSE jira_comments \cup {<<initiative[existing].jira_key, act[a].fid>>}
            /\ jira_labels' =
                  IF initiative[existing].jira_key = NULL THEN jira_labels
                  ELSE jira_labels
                         \cup update_jira_labels(initiative[existing].jira_key, act[a].fid)
    /\ UNCHANGED <<feedback, feedback_label, initiative, created_for, jira_epics, jira_enabled>>
    /\ UNCHANGED notAct

\* The Initiative model of the source declares no cluster_id: the lookup and
\* the constructor raise on that attribute, _create_jira_issue logs the
\* exception and process_actions goes on.  ActLookup and ActCreateInitiative
\* are the outcome with the column the worker reads and writes; this is the
\* outcome with the model of the source.
ActLookupRaises(a) ==
    /\ act[a].pc = "lookup"
    /\ act' = [act EXCEPT ![a].pc = "triage"]
    /\ UNCHANGED <<feedback, feedback_label, initiative, created_for, jira_epics,
                   jira_comments, jira_labels,
                   jira_enabled>>
    /\ UNCHANGED notAct

\* _create_new_initiative: add the initiative, commit.
ActCreateInitiative(a) ==
    /\ act[a].pc = "create"
    /\ initiative' = Append(initiative, NewInitiative(act[a].cluster_id))
    /\ created_for' = Append(created_for, act[a].fid)
    /\ act' = [act EXCEPT ![a].pc = "epic", ![a].init = Len(initiative) + 1]
    /\ UNCHANGED <<feedback, feedback_label, jira_epics, jira_comments, jira_labels, jira_enabled>>
    /\ UNCHANGED notAct

\* _create_jira_epic: POST the epic; a 201 returns its key, anything else
\* returns None and the initiative keeps its null key.
ActCreateEpic(a) ==
    /\ act[a].pc = "epic"
    /\ \E created \in BOOLEAN :
          IF created
          THEN /\ jira_epics' = jira_epics + 1
               /\ act' = [act EXCEPT ![a].pc = "storekey", ![a].key = jira_epics + 1]
          ELSE /\ act' = [act EXCEPT ![a].pc = "triage"]
               /\ UNCHANGED jira_epics
    /\ UNCHANGED <<feedback, feedback_label, initiative, created_for, jira_comments,
                   jira_labels, jira_enabled>>
    /\ UNCHANGED notAct

\* _create_new_initiative: initiative.jira_key = jira_key, commit.
ActStoreKey(a) ==
    /\ act[a].pc = "storekey"
    /\ initiative' = [initiative EXCEPT ![act[a].init].jira_key = act[a].key]
    /\ UNCHANGED created_for
    /\ act' = [act EXCEPT ![a].pc = "triage"]
    /\ UNCHANGED <<feedback, feedback_label, jira_epics, jira_comments, jira_labels, jira_enabled>>
    /\ UNCHANGED notAct

\* A worker that leaves the item without touching its status.
ActLeave(a) ==
    /\ act[a].pc = "triage"
    /\ act' = [act EXCEPT ![a] = [ActRest EXCEPT !.pc = "loop", !.batch = act[a].batch]]
    /\ UNCHANGED <<feedback, feedback_label, initiative, created_for, jira_epics, jira_comments,
                   jira_labels, jira_enabled>>
    /\ UNCHANGED notAct

\* process_actions: feedback.status = 'triaged', commit.
ActTriage(a) ==
    /\ act[a].pc = "triage"
    /\ feedback' = [feedback EXCEPT ![act[a].fid].status = "triaged"]
    /\ act' = [act EXCEPT ![a] = [ActRest EXCEPT !.pc = "loop", !.batch = act[a].batch]]
    /\ UNCHANGED <<feedback_label, initiative, created_for, jira_epics, jira_comments,
                   jira_labels, jira_enabled>>
    /\ UNCHANGED notAct

ActStep(a) ==
    \/ ActQuery(a)
    \/ ActLoad(a)
    \/ ActSpikeAborts(a)
    \/ ActLookup(a)
    \/ ActLookupRaises(a)
    \/ ActCreateInitiative(a)
    \/ ActCreateEpic(a)
    \/ ActStoreKey(a)
    \/ ActTriage(a)
    \/ ActBatchDone(a)

\* The steps of an actions worker whose database and whose Initiative table
\* take every statement of the worker.
ActStepSound(a) ==
    \/ ActQuery(a)
    \/ ActLoad(a)
    \/ ActLookup(a)
    \/ ActCreateInitiative(a)
    \/ ActCreateEpic(a)
    \/ ActStoreKey(a)
    \/ ActTriage(a)
    \/ ActBatchDone(a)

\* Request bodies of the resolve route: without and with a label set.
ResolveBodies == {[has_labels |-> FALSE, labels |-> <<>>],
                  [has_labels |-> TRUE, labels |-> <<"docs">>],
                  [has_labels |-> TRUE, labels |-> <<"docs", "urgent">>]}

\* The rows of the label table: the default labels _ensure_labels stores.
LabelTable == Labels

\* The labels of the body that db.query(Label).filter(Label.name ==
\* label_name).first() finds.
FoundLabels(names) == SelectSeq(names, LAMBDA l : l \in LabelTable)

HumanScore == 1000       \* score=1.0, human override

\* resolve_feedback: status resolved, the label set replaced when the body
\* carries one, one commit.
resolve_feedback(feedback_id, data) ==
    /\ feedback_id \in DOMAIN feedback
    /\ feedback' = [feedback EXCEPT ![feedback_id].status = "resolved"]
    /\ feedback_label' =
          IF data.has_labels
          THEN SelectSeq(feedback_label, LAMBDA r : r.feedback_id # feedback_id)
               \o [i \in DOMAIN FoundLabels(data.labels) |->
                      [feedback_id |-> feedback_id,
                       label |-> FoundLabels(data.labels)[i],
                       score |-> HumanScore]]
          ELSE feedback_label
    /\ UNCHANGED actVars
    /\ UNCHANGED notAct

----------------------------------------------------------------------------
(***************************************************************************)
(* Specifications.                                                         *)
(***************************************************************************)
\* Nothing submitted, nothing stored.
IngestIdle ==
    /\ redis_keys = [k \in Keys |-> Absent]
    /\ queue = <<>>
    /\ producers = [p \in Producers |-> [pc |-> "idle", payload |-> NoPayload]]
    /\ ingest = [w \in IngestWorkers |-> [pc |-> "idle", payload |-> NoPayload]]
    /\ feedback = <<>>
    /\ wins = [k \in Keys |-> <<>>]
    /\ rejected = [k \in Keys |-> FALSE]
    /\ submit_age = [k \in Keys |-> -1]

ScoreIdle ==
    /\ score_in = NoInput
    /\ score_out = NoScore
    /\ rescored = {}

\* No NLU worker has run: no labels, no clusters.
NluIdle ==
    /\ feedback_label = <<>>
    /\ cluster = <<>>
    /\ nlu = [w \in NluWorkers |-> NluRest]
    /\ nlu_runs = 0
    /\ joins = <<>>
    /\ touched = {}

\* No actions worker has run: no initiatives, nothing in JIRA.
ActIdle ==
    /\ initiative = <<>>
    /\ created_for = <<>>
    /\ act = [a \in ActionsWorkers |-> ActRest]
    /\ jira_epics = 0
    /\ jira_comments = {}
    /\ jira_labels = {}

\* Producers, the ingestion queue and the ingest workers, with time passing.
InitIngest ==
    /\ IngestIdle
    /\ ScoreIdle
    /\ NluIdle
    /\ ActIdle
    /\ jira_enabled = FALSE

NextIngest ==
    \/ \E p \in Producers : slack_events(p)
    \/ \E p \in Producers : discord_webhook(p)
    \/ \E p \in Producers : add_feedback(p)
    \/ \E p \in Producers : ProducerExpire(p)
    \/ \E p \in Producers : ProducerLpush(p)
    \/ \E w \in IngestWorkers : IngestBlpop(w)
    \/ \E w \in IngestWorkers : IngestSetnx(w)
    \/ \E w \in IngestWorkers : IngestExpire(w)
    \/ \E w \in IngestWorkers : IngestCommit(w)
    \/ Tick

SpecIngest == InitIngest /\ [][NextIngest]_vars

\* The same with a database that can be unavailable at a commit.
NextIngestFail ==
    \/ NextIngest
    \/ \E w \in IngestWorkers : IngestCommitFails(w)

SpecIngestFail == InitIngest /\ [][NextIngestFail]_vars

\* The ingest pipeline with workers that can be interrupted.
NextShutdown ==
    \/ NextIngest
    \/ \E w \in IngestWorkers : IngestInterrupt(w)

SpecShutdown == InitIngest /\ [][NextShutdown]_vars

\* The priority scorer called once on each state of ScoreInputs.
InitScore ==
    /\ IngestIdle
    /\ NluIdle
    /\ ActIdle
    /\ jira_enabled = FALSE
    /\ score_in \in ScoreInputs
    /\ score_out = NoScore
    /\ rescored = {}

NextScore == ScoreCall

SpecScore == InitScore /\ [][NextScore]_vars

\* A store as ingestion leaves it: items in status new, not yet scored,
\* not yet clustered.
StoredMsgIds == <<"m1", "m2", "m3", "m4", "m5", "m6", "m7", "m8", "m9", "m10", "m11",
                  "m12">>

IngestedRow(i, text) ==
    [source |-> "discord", source_msg_id |-> StoredMsgIds[i], text_clean |-> text,
     priority_score |-> NoScore, cluster_id |-> NULL, status |-> "new",
     created_age |-> 0]

IngestedStore(max) ==
    /\ redis_keys = [k \in Keys |-> Absent]
    /\ queue = <<>>
    /\ producers = [p \in Producers |-> [pc |-> "idle", payload |-> NoPayload]]
    /\ ingest = [w \in IngestWorkers |-> [pc |-> "idle", payload |-> NoPayload]]
    /\ wins = [k \in Keys |-> <<>>]
    /\ rejected = [k \in Keys |-> FALSE]
    /\ submit_age = [k \in Keys |-> -1]
    /\ \E n \in 1..max : \E texts \in [1..n -> StoredTexts] :
          feedback = [i \in 1..n |-> IngestedRow(i, texts[i])]
    /\ ScoreIdle
    /\ NluIdle
    /\ ActIdle
    /\ jira_enabled = FALSE

InitStore == IngestedStore(MaxFeedback)

\* One NLU worker, whose embedder takes the centroid array, on a sequence
\* of ingested items and no cluster.
MaxSequence == 3         \* items of the sequence

InitOrder == IngestedStore(MaxSequence)

NextOrder == NluStepCosine("n1")

SpecOrder == InitOrder /\ [][NextOrder]_vars

\* One NLU worker and the priority worker on an ingested store.
NextClusterSolo ==
    \/ NluStep("n1")
    \/ PriorityRun

SpecClusterSolo == InitStore /\ [][NextClusterSolo]_vars

\* One NLU worker and the priority worker, with calls of the scorer on
\* items that have their score.
NextRescore ==
    \/ NluStep("n1")
    \/ PriorityRun
    \/ PriorityRetry

SpecRescore == InitStore /\ [][NextRescore]_vars

\* Two NLU workers on an ingested store.
NextCluster == \E w \in NluWorkers : NluStep(w)

SpecCluster == InitStore /\ [][NextCluster]_vars

\* One NLU worker whose processing of an item may fail at any step.
NextClusterFail ==
    \/ NluStep("n1")
    \/ NluFail("n1")

SpecClusterFail == InitStore /\ [][NextClusterFail]_vars

\* The tables after one NLU worker has run process_feedback on the items
\* from id i on, each once, in id order.
RECURSIVE NluPassFrom(_, _)
NluPassFrom(st, i) ==
    IF i > Len(st.feedback) THEN st
    ELSE IF st.feedback[i].text_clean = "" THEN NluPassFrom(st, i + 1)
    ELSE
      LET text == st.feedback[i].text_clean
          rows == classify(text)
          e == embed_text(text)
          c == AssignTarget(st.cluster, e)
      IN  NluPassFrom(
            [feedback |-> [st.feedback EXCEPT ![i].cluster_id =
                              IF c = 0 THEN Len(st.cluster) + 1 ELSE c],
             cluster |-> IF c = 0 THEN Append(st.cluster, CreatedCluster(e))
                         ELSE [st.cluster EXCEPT ![c] = UpdatedCluster(@, e)],
             feedback_label |-> st.feedback_label \o
                [j \in DOMAIN rows |->
                    [feedback_id |-> i, label |-> rows[j].label, score |-> rows[j].score]]],
            i + 1)

\* The tables after the priority worker has scored every item.
ScorePass(st) ==
    [st EXCEPT !.feedback =
        [i \in DOMAIN st.feedback |->
            [st.feedback[i] EXCEPT !.priority_score =
                PriorityScore(ScoreInputFrom(st.feedback, st.cluster,
                                             st.feedback_label, i))]]]

\* A store whose items the NLU worker has handled once and the priority
\* worker has scored; two actions workers and the resolve route; JIRA
\* configured or not.
ScoredStore(max) ==
    /\ redis_keys = [k \in Keys |-> Absent]
    /\ queue = <<>>
    /\ producers = [p \in Producers |-> [pc |-> "idle", payload |-> NoPayload]]
    /\ ingest = [w \in IngestWorkers |-> [pc |-> "idle", payload |-> NoPayload]]
    /\ wins = [k \in Keys |-> <<>>]
    /\ rejected = [k \in Keys |-> FALSE]
    /\ submit_age = [k \in Keys |-> -1]
    /\ \E n \in 1..max : \E texts \in [1..n -> StoredTexts] :
          LET st == ScorePass(NluPassFrom(
                       [feedback |-> [i \in 1..n |-> IngestedRow(i, texts[i])],
                        cluster |-> <<>>, feedback_label |-> <<>>], 1))
          IN  /\ feedback = st.feedback
              /\ cluster = st.cluster
              /\ feedback_label = st.feedback_label
              /\ joins = [c \in DOMAIN st.cluster |-> st.cluster[c].size - 1]
              /\ touched = {i \in 1..n : st.feedback[i].cluster_id # NULL}
    /\ nlu = [w \in NluWorkers |-> NluRest]
    /\ nlu_runs = 0
    /\ ScoreIdle
    /\ ActIdle
    /\ jira_enabled \in BOOLEAN

InitActions == ScoredStore(MaxFeedback)

NextActions ==
    \/ \E a \in ActionsWorkers : ActStep(a)
    \/ \E id \in 1..MaxFeedback : \E data \in ResolveBodies : resolve_feedback(id, data)

SpecActions == InitActions /\ [][NextActions]_vars

\* The same store with a single actions worker.
NextActionsSolo ==
    \/ ActStep("a1")
    \/ \E id \in 1..MaxFeedback : \E data \in ResolveBodies : resolve_feedback(id, data)

SpecActionsSolo == InitActions /\ [][NextActionsSolo]_vars

\* The single actions worker alone, and it keeps running: the loop of run
\* never ends.
SpecActionsLive == InitActions /\ [][ActStep("a1")]_vars /\ WF_vars(ActStep("a1"))

\* A store whose items the priority worker has scored, before or after the
\* NLU worker has handled them; two actions workers; JIRA configured or not.
InitRepeat ==
    /\ redis_keys = [k \in Keys |-> Absent]
    /\ queue = <<>>
    /\ producers = [p \in Producers |-> [pc |-> "idle", payload |-> NoPayload]]
    /\ ingest = [w \in IngestWorkers |-> [pc |-> "idle", payload |-> NoPayload]]
    /\ wins = [k \in Keys |-> <<>>]
    /\ rejected = [k \in Keys |-> FALSE]
    /\ submit_age = [k \in Keys |-> -1]
    /\ \E n \in 1..MaxFeedback : \E texts \in [1..n -> StoredTexts] :
       \E clustered \in BOOLEAN :
          LET ingested == [feedback |-> [i \in 1..n |-> IngestedRow(i, texts[i])],
                           cluster |-> <<>>, feedback_label |-> <<>>]
              st == ScorePass(IF clustered THEN NluPassFrom(ingested, 1) ELSE ingested)
          IN  /\ feedback = st.feedback
              /\ cluster = st.cluster
              /\ feedback_label = st.feedback_label
              /\ joins = [c \in DOMAIN st.cluster |-> st.cluster[c].size - 1]
              /\ touched = {i \in 1..n : st.feedback[i].cluster_id # NULL}
    /\ nlu = [w \in NluWorkers |-> NluRest]
    /\ nlu_runs = 0
    /\ ScoreIdle
    /\ ActIdle
    /\ jira_enabled \in BOOLEAN

NextRepeat == \E a \in ActionsWorkers : ActStep(a)

SpecRepeat == InitRepeat /\ [][NextRepeat]_vars

\* The three workers behind ingestion, one of each, on an ingested store,
\* without failures; each keeps running.  JIRA configured or not.
InitPipeline ==
    /\ redis_keys = [k \in Keys |-> Absent]
    /\ queue = <<>>
    /\ producers = [p \in Producers |-> [pc |-> "idle", payload |-> NoPayload]]
    /\ ingest = [w \in IngestWorkers |-> [pc |-> "idle", payload |-> NoPayload]]
    /\ wins = [k \in Keys |-> <<>>]
    /\ rejected = [k \in Keys |-> FALSE]
    /\ submit_age = [k \in Keys |-> -1]
    /\ \E n \in 1..MaxFeedback : \E texts \in [1..n -> StoredTexts] :
          feedback = [i \in 1..n |-> IngestedRow(i, texts[i])]
    /\ ScoreIdle
    /\ NluIdle
    /\ ActIdle
    /\ jira_enabled \in BOOLEAN

NextPipeline ==
    \/ NluStepCosine("n1")
    \/ PriorityRun
    \/ ActStepSound("a1")

SpecPipeline ==
    /\ InitPipeline
    /\ [][NextPipeline]_vars
    /\ WF_vars(NluStepCosine("n1"))
    /\ WF_vars(PriorityRun)
    /\ WF_vars(ActStepSound("a1"))

\* One NLU worker, whose processing of an item may fail at any step, and one
\* actions worker on a clustered and scored store.
NextIsolation ==
    \/ NluStep("n1")
    \/ NluFail("n1")
    \/ ActStep("a1")

SpecIsolation == InitActions /\ [][NextIsolation]_vars

\* A store with one cluster of MaxMembers items with the clean text "crash",
\* each clustered, scored and triaged, and one more item as ingestion leaves
\* it, whose text is similar to the centroid above the threshold; one NLU
\* worker and the priority worker.
MaxMembers == 10         \* members of the cluster

MemberRows ==
    [i \in 1..MaxMembers |->
        [IngestedRow(i, "crash") EXCEPT !.cluster_id = 1, !.status = "triaged"]]

MemberLabels ==
    [i \in 1..MaxMembers |->
        [feedback_id |-> i, label |-> classify("crash")[1].label,
         score |-> classify("crash")[1].score]]

MemberCluster == [CreatedCluster(embed_text("crash")) EXCEPT !.size = MaxMembers]

InitMembers ==
    /\ redis_keys = [k \in Keys |-> Absent]
    /\ queue = <<>>
    /\ producers = [p \in Producers |-> [pc |-> "idle", payload |-> NoPayload]]
    /\ ingest = [w \in IngestWorkers |-> [pc |-> "idle", payload |-> NoPayload]]
    /\ wins = [k \in Keys |-> <<>>]
    /\ rejected = [k \in Keys |-> FALSE]
    /\ submit_age = [k \in Keys |-> -1]
    /\ \E text \in {"crash", "app crash"} : \E source \in Sources :
          feedback =
              [i \in 1..MaxMembers |->
                  [MemberRows[i] EXCEPT !.priority_score =
                      PriorityScore(ScoreInputFrom(MemberRows, <<MemberCluster>>,
                                                   MemberLabels, i))]]
              \o <<[IngestedRow(MaxMembers + 1, text) EXCEPT !.source = source]>>
    /\ cluster = <<MemberCluster>>
    /\ feedback_label = MemberLabels
    /\ joins = <<MaxMembers - 1>>
    /\ touched = 1..MaxMembers
    /\ nlu = [w \in NluWorkers |-> NluRest]
    /\ nlu_runs = 0
    /\ ScoreIdle
    /\ ActIdle
    /\ jira_enabled = FALSE

SpecMembers == InitMembers /\ [][NextClusterSolo]_vars

\* A single actions worker on a store with a burst of items created within
\* the last day.
MaxBurst == 3            \* items of the burst

InitBurst == ScoredStore(MaxBurst)

NextBurst == ActStep("a1")

SpecBurst == InitBurst /\ [][NextBurst]_vars

----------------------------------------------------------------------------
(***************************************************************************)
(* Properties of the deduplication gate and the ingestion stage.           *)
(***************************************************************************)
ItemCount(k) ==
    Cardinality({i \in DOMAIN feedback :
        /\ feedback[i].source = k.source
        /\ feedback[i].source_msg_id = k.source_msg_id})

\* No message is queued, in a producer's hands or in an ingest worker's hands.
Drained ==
    /\ queue = <<>>
    /\ \A p \in Producers : producers[p].pc = "idle"
    /\ \A w \in IngestWorkers : ingest[w].pc = "idle"

\* C1: every key submitted one or more times, all within the retention
\* window, has exactly one feedback row once the queue is drained.
C1_ExactlyOneItem ==
    \A k \in Keys :
        (submit_age[k] \in 0..(RetentionDays - 1) /\ Drained) => ItemCount(k) = 1

\* The commit of ingest worker w fails in the step.
CommitFails(w) ==
    ingest[w].pc = "commit" /\ ingest'[w].pc = "idle" /\ feedback' = feedback

\* C26: a message whose persistence fails is neither lost nor left with its
\* dedup key claimed and no item: after the failed commit the message is
\* back on the queue for a later poll, and its key is free or has an item.
C26_TransientRetried ==
    [][\A w \in IngestWorkers :
          CommitFails(w) =>
             /\ \E i \in DOMAIN queue' : queue'[i] = ingest[w].payload
             /\ (redis_keys'[KeyOf(ingest[w].payload)] = Absent
                 \/ ItemCount(KeyOf(ingest[w].payload))' >= 1)]_vars

\* C5: claims of one key are a test-and-set: no two SETNX calls less than
\* RetentionDays apart both return 1, and while a successful claim is less
\* than RetentionDays old the key is held, so every other claim returns 0.
C5_TryClaimAtomic ==
    \A k \in Keys :
        /\ Len(wins[k]) <= 1
        /\ wins[k] # <<>> => redis_keys[k] # Absent

\* A key claimed once in its window, with a later claim of it turned down.
C5_Witness ==
    \E k \in Keys : Len(wins[k]) = 1 /\ rejected[k]

\* C12: a step in which an ingest worker's claim fails (the worker leaves
\* its SETNX without going on to EXPIRE) changes no feedback row and leaves
\* every dedup key and its time to live as they were.
C12_DuplicateIsNoOp ==
    [][\A w \in IngestWorkers :
          (ingest[w].pc = "setnx" /\ ingest'[w].pc = "idle")
              => (feedback' = feedback /\ redis_keys' = redis_keys)]_vars

\* A message dropped by the ingest worker as a duplicate: its key is held
\* with its full time to live and the drained pipeline stored no row for it.
C12_Witness ==
    \E k \in Keys :
        /\ rejected[k]
        /\ Drained
        /\ ItemCount(k) = 0
        /\ redis_keys[k] = RetentionDays

\* C13: a step in which an ingest worker whose claim succeeded commits adds
\* exactly one feedback row and changes no other: the row has the payload's
\* source and message id, status new, no score, no cluster and the cleaned
\* text, which is empty for an empty or blank text.
C13_FirstTimePersisted ==
    [][\A w \in IngestWorkers :
          (ingest[w].pc = "commit" /\ ingest'[w].pc = "idle") =>
              LET payload == ingest[w].payload
                  row == feedback'[Len(feedback')]
              IN  /\ Len(feedback') = Len(feedback) + 1
                  /\ SubSeq(feedback', 1, Len(feedback)) = feedback
                  /\ row.source = payload.source
                  /\ row.source_msg_id = payload.source_msg_id
                  /\ row.status = "new"
                  /\ row.priority_score = NoScore
                  /\ row.cluster_id = NULL
                  /\ row.text_clean = preprocess(payload.text)
                  /\ payload.text = "" => row.text_clean = ""]_vars

\* A message with an empty text and one with a text, both stored as new.
C13_Witness ==
    \E i, j \in DOMAIN feedback :
        /\ feedback[i].text_clean = ""
        /\ feedback[j].text_clean = "crash"
        /\ feedback[i].status = "new"
        /\ feedback[j].status = "new"

\* C7: the store holds at most one feedback row per (source, source_msg_id).
C7_StorageUnique ==
    \A k \in Keys : ItemCount(k) <= 1

----------------------------------------------------------------------------
(***************************************************************************)
(* Properties of the clustering engine and of the pipeline order.          *)
(***************************************************************************)
\* No NLU worker is in the middle of an item.
NluQuiet == \A w \in NluWorkers : nlu[w].pc \in {"idle", "loop"}

C8_ScoredAfterClustered ==
    \A i \in DOMAIN feedback :
        (feedback[i].text_clean # "" /\ feedback[i].priority_score # NoScore)
            => feedback[i].cluster_id # NULL

\* C9: between the NLU worker's items, an item for which labels were stored
\* or a cluster was created or updated has its cluster_id persisted.
C9_AllOrNothing ==
    NluQuiet =>
        \A i \in DOMAIN feedback :
            (i \in touched \/ \E j \in DOMAIN feedback_label :
                                  feedback_label[j].feedback_id = i)
                => feedback[i].cluster_id # NULL

\* The embedding of the item NLU worker w is processing.
Embedding(w) == embed_text(feedback[nlu[w].fid].text_clean)

\* The clusters whose centroid is most similar to e, and those of them whose
\* similarity is above the threshold.
BestClusters(e) ==
    {c \in DOMAIN cluster :
        \A other \in DOMAIN cluster :
            ~CosGreater(e, cluster[other].centroid, cluster[c].centroid)}

JoinTargets(e) == {c \in BestClusters(e) : CosAboveThreshold(e, cluster[c].centroid)}

\* The centroid of row new is the elementwise average of that of row old and e.
IsAverage(new, old, e) ==
    \A k \in 1..2 :
        new.centroid[k] * Pow2(old.scale + 1)
            = (old.centroid[k] + Pow2(old.scale) * e[k]) * Pow2(new.scale)

\* C14: join rule, for one NLU worker: when a cluster is most similar to the
\* item above the threshold, the assignment goes on to update such a cluster,
\* and the update averages its centroid with the embedding, adds 1 to its
\* size, creates no cluster and changes no other cluster.
C14_JoinRule ==
    [][/\ (nlu["n1"].pc = "assign" /\ nlu'["n1"] # nlu["n1"]
            /\ JoinTargets(Embedding("n1")) # {})
           => (nlu'["n1"].pc = "write"
               /\ nlu'["n1"].target \in JoinTargets(Embedding("n1")))
       /\ (nlu["n1"].pc = "write" /\ nlu'["n1"] # nlu["n1"] /\ nlu["n1"].target # 0)
           => LET c == nlu["n1"].target IN
              /\ Len(cluster') = Len(cluster)
              /\ \A other \in DOMAIN cluster \ {c} : cluster'[other] = cluster[other]
              /\ cluster'[c].size = cluster[c].size + 1
              /\ IsAverage(cluster'[c], cluster[c], Embedding("n1"))
              /\ nlu'["n1"].cid = c]_vars

\* The lowest id of a set of cluster ids.
LowestId(ids) == CHOOSE c \in ids : \A other \in ids : c <= other

ReferencePass ==
    NluPassFrom([feedback |-> [i \in DOMAIN feedback |->
                                  [feedback[i] EXCEPT !.cluster_id = NULL]],
                 cluster |-> <<>>, feedback_label |-> <<>>], 1)

\* The NLU worker has processed every item exactly once.
OnePassDone ==
    /\ nlu_runs = Len(feedback)
    /\ nlu["n1"].pc = "loop"
    /\ nlu["n1"].batch = <<>>

C15_CreateRule ==
    [][/\ (nlu["n1"].pc = "assign" /\ nlu'["n1"] # nlu["n1"]
            /\ JoinTargets(Embedding("n1")) = {})
           => (nlu'["n1"].pc = "write" /\ nlu'["n1"].target = 0)
       /\ (nlu["n1"].pc = "write" /\ nlu'["n1"] # nlu["n1"] /\ nlu["n1"].target = 0)
           => /\ Len(cluster') = Len(cluster) + 1
              /\ SubSeq(cluster', 1, Len(cluster)) = cluster
              /\ cluster'[Len(cluster')].size = 1
              /\ cluster'[Len(cluster')].centroid = Embedding("n1")
              /\ cluster'[Len(cluster')].scale = 0
              /\ nlu'["n1"].cid = Len(cluster')]_vars

----------------------------------------------------------------------------
(***************************************************************************)
(* Properties of escalation and of the item status.                        *)
(***************************************************************************)
KeyedInitiatives(c) ==
    {i \in DOMAIN initiative : initiative[i].cluster_id = c /\ initiative[i].jira_key # NULL}

InitiativesOf(c) == {i \in DOMAIN initiative : initiative[i].cluster_id = c}

\* C18: with a single actions worker, whatever the outcome of each epic
\* creation, the store holds at most one initiative per cluster.
C18_OneInitiativePerCluster ==
    \A c \in DOMAIN cluster : Cardinality(InitiativesOf(c)) <= 1

\* A second item of a cluster was escalated after the first: the worker found
\* the initiative of the cluster and commented on its epic, and the cluster
\* still has that one initiative.
C18_Witness ==
    \E c \in DOMAIN cluster : \E i \in InitiativesOf(c) : \E id \in DOMAIN feedback :
        /\ InitiativesOf(c) = {i}
        /\ feedback[id].cluster_id = c
        /\ initiative[i].jira_key # NULL
        /\ <<initiative[i].jira_key, id>> \in jira_comments

\* The single actions worker is in _create_jira_issue, about to look the
\* initiative of the item's cluster up, and takes its step.
Escalates == act["a1"].pc = "lookup" /\ act'["a1"] # act["a1"]

\* The initiative the lookup of the single actions worker finds, 0 for none.
Found ==
    IF act["a1"].cluster_id = NULL THEN 0
    ELSE FirstInitiative(initiative, act["a1"].cluster_id)

EpicFails ==
    act["a1"].pc = "epic" /\ act'["a1"] # act["a1"] /\ jira_epics' = jira_epics

C24_ProcessedIsTriaged ==
    \A id \in 1..MaxFeedback :
        (/\ id \in DOMAIN feedback
         /\ act["a1"].pc = "loop"
         /\ act["a1"].batch # <<>>
         /\ Head(act["a1"].batch) = id
         /\ feedback[id].status = "new")
            ~> (id \in DOMAIN feedback /\ feedback[id].status = "triaged")

\* The label rows of an item.
LabelsOf(rows, id) == SelectSeq(rows, LAMBDA r : r.feedback_id = id)

\* Every item but `id` keeps its row and its labels in the step.
OthersUntouched(id) ==
    \A b \in DOMAIN feedback \ {id} :
        /\ b \in DOMAIN feedback'
        /\ feedback'[b] = feedback[b]
        /\ LabelsOf(feedback_label', b) = LabelsOf(feedback_label, b)

\* process_feedback of the NLU worker leaves its item through the handler.
NluFails ==
    /\ nlu["n1"].pc \in {"labels", "assign", "write", "setcid"}
    /\ nlu'["n1"].pc \notin {"labels", "assign", "write", "setcid"}
    /\ feedback' = feedback

\* process_actions rolls back after the refused commit.
ActAborts ==
    /\ act["a1"].pc = "loop"
    /\ act["a1"].batch # <<>>
    /\ act'["a1"].pc \in {"loop", "idle"}
    /\ act'["a1"] # act["a1"]

\* _create_jira_issue fails: the lookup raises, or the epic request fails.
EscalationFails ==
    \/ Escalates /\ Found = 0 /\ act'["a1"].pc # "create"
    \/ Escalates /\ Found # 0 /\ initiative[Found].jira_key # NULL
          /\ jira_comments' = jira_comments
    \/ EpicFails

C27_UnconfiguredOnlySkipsEscalation ==
    /\ [](~jira_enabled => /\ initiative = <<>>
                           /\ jira_epics = 0
                           /\ jira_comments = {}
                           /\ jira_labels = {})
    /\ \A id \in 1..MaxFeedback :
          (/\ ~jira_enabled
           /\ id \in DOMAIN feedback
           /\ act["a1"].pc = "loop"
           /\ act["a1"].batch # <<>>
           /\ Head(act["a1"].batch) = id
           /\ feedback[id].status = "new")
              ~> (id \in DOMAIN feedback /\ feedback[id].status = "triaged")

\* Without credentials an item scored above the threshold was triaged and
\* no initiative was created.
C27_Witness ==
    /\ ~jira_enabled
    /\ initiative = <<>>
    /\ act["a1"].pc = "idle"
    /\ \E id \in DOMAIN feedback :
          /\ feedback[id].priority_score > JiraThreshold
          /\ feedback[id].status = "triaged"

\* The labels of an item with their scores, as a set.
LabelSet(rows, id) ==
    {[label |-> rows[i].label, score |-> rows[i].score] :
        i \in {j \in DOMAIN rows : rows[j].feedback_id = id}}

\* C28: after resolve on an existing item with a label list, the label set
\* of the item is exactly the supplied labels, each with score 1.0, and the
\* status is resolved whatever it was.
C28_HumanOverride ==
    [][\A id \in 1..MaxFeedback : \A data \in ResolveBodies :
          resolve_feedback(id, data) =>
             /\ feedback'[id].status = "resolved"
             /\ data.has_labels =>
                   LabelSet(feedback_label', id)
                       = {[label |-> data.labels[i], score |-> HumanScore] :
                             i \in DOMAIN data.labels}]_vars

\* The items of a cluster created in the last `days` days.
CreatedWithin(c, days) == {i \in InCluster(c) : feedback[i].created_age < days}

\* The momentum spike of the escalation contract: the count of the last 24
\* hours exceeds twice the daily average of the last RetentionDays days.
SpikeByContract(c) ==
    RetentionDays * Cardinality(CreatedWithin(c, 1))
        > 2 * Cardinality(CreatedWithin(c, RetentionDays))

\* The single actions worker decides on the item at the head of its batch.
Decides == act["a1"].pc = "loop" /\ act["a1"].batch # <<>> /\ act'["a1"] # act["a1"]

\* C19: with the issue tracker configured, an item takes the escalation path
\* if and only if its score is strictly above the threshold or its cluster
\* shows a momentum spike; an item at the threshold or without a score whose
\* cluster shows no spike is skipped.
C19_EscalationTrigger ==
    [][(jira_enabled /\ Decides) =>
          LET f == feedback[Head(act["a1"].batch)]
              trigger == \/ (f.priority_score # NoScore /\ f.priority_score > JiraThreshold)
                         \/ (f.cluster_id # NULL /\ SpikeByContract(f.cluster_id))
          IN  (act'["a1"].pc = "lookup") <=> trigger]_vars

\* The cluster has three items created in the last 24 hours and none in the
\* seven days before them.
BurstOfThree(c) ==
    /\ Cardinality(CreatedWithin(c, 1)) = 3
    /\ InCluster(c) = CreatedWithin(c, 1)

\* C20: for a cluster with no item in the prior 7-day window and three items
\* created in the last 24 hours the spike check returns true, and with the
\* issue tracker configured an item of that cluster is escalated even when
\* its score is at or below the threshold.
C20_SpikeScenario ==
    [][(jira_enabled /\ Decides) =>
          LET f == feedback[Head(act["a1"].batch)] IN
          (f.cluster_id # NULL /\ BurstOfThree(f.cluster_id)
           /\ f.priority_score <= JiraThreshold)
              => (check_cluster_momentum_spike(f.cluster_id)
                  /\ act'["a1"].pc = "lookup")]_vars

StatusRank(status) ==
    CASE status = "new" -> 0 [] status = "triaged" -> 1 [] status = "resolved" -> 2

\* C4: no step moves the status of an item backward along
\* new -> triaged -> resolved.
C4_StatusMonotonic ==
    [][\A i \in DOMAIN feedback :
          StatusRank(feedback'[i].status) >= StatusRank(feedback[i].status)]_vars

----------------------------------------------------------------------------
SecurityNoCluster ==
    /\ score_out # NoScore
    /\ \E i \in DOMAIN score_in.rows : score_in.rows[i].label = "security"
    /\ score_in.cluster = NoCluster
    /\ ~score_in.text.null

\* C29: for an item with the label security and no cluster, whatever its
\* other labels and its text, the severity signal is at least 0.95 and the
\* novelty signal is 1.0.
C29_SecurityNoCluster ==
    SecurityNoCluster =>
        /\ Severity(score_in.rows, score_in.text) >= 950
        /\ Novelty(score_in.cluster, score_in.resolved_count,
                   score_in.raises = "novelty") = 1000

\* Such an item with a second label of lower severity and a text whose
\* keywords score lower than security.
C29_Witness ==
    /\ SecurityNoCluster
    /\ \E i \in DOMAIN score_in.rows : score_in.rows[i].label = "docs"
    /\ score_in.text.words = <<"slow", "error">>
    /\ score_in.raises = "novelty"

\* The item that comes to the cluster of MaxMembers items.
Newcomer == MaxMembers + 1

\* C30: when the item joins the cluster of 10 members, the size of the
\* cluster becomes 11 and the reach of the item is computed from that size
\* (dedup multiplier min(11/10, 2.0) = 1.1).
C30_EleventhItem ==
    [][/\ (/\ nlu["n1"].pc = "assign"
            /\ nlu["n1"].fid = Newcomer
            /\ cluster[1].size = MaxMembers
            /\ nlu'["n1"] # nlu["n1"])
              => (nlu'["n1"].pc = "write" /\ nlu'["n1"].target = 1)
       /\ (/\ nlu["n1"].pc = "write"
            /\ nlu["n1"].fid = Newcomer
            /\ nlu["n1"].loaded.size = MaxMembers
            /\ nlu'["n1"] # nlu["n1"])
              => cluster'[1].size = MaxMembers + 1
       /\ (feedback'[Newcomer].priority_score # feedback[Newcomer].priority_score)
              => ScoreInputOf(Newcomer).cluster = FoundCluster(MaxMembers + 1)]_vars

\* The momentum signal of the scorer's call.
MomentumOfCall ==
    Momentum(score_in.cluster, score_in.recent_count, score_in.previous_count,
             score_in.raises = "momentum")

\* The growth rate of the contract, clamped to [-0.5, 1.0].
ClampedGrowth(recent, previous) ==
    LET rate == (1000 * (recent - previous)) \div previous IN
    IF rate < -500 THEN -500 ELSE IF rate > 1000 THEN 1000 ELSE rate

\* C31: the momentum of a clustered item is 1.0 when the previous window is
\* empty and the recent one is not, 0.0 when both are empty, and otherwise
\* (clamp((recent - previous) / previous, -0.5, 1.0) + 0.5) / 1.5; without a
\* cluster it is 1.0; it always lies in [0, 1].
C31_MomentumSignal ==
    score_out # NoScore =>
        /\ MomentumOfCall \in 0..1000
        /\ score_in.cluster = NoCluster => MomentumOfCall = 1000
        /\ (score_in.cluster # NoCluster /\ score_in.raises # "momentum") =>
              MomentumOfCall =
                 IF score_in.previous_count = 0
                 THEN (IF score_in.recent_count > 0 THEN 1000 ELSE 0)
                 ELSE ((ClampedGrowth(score_in.recent_count, score_in.previous_count)
                          + 500) * 1000) \div 1500

\* The scorer was called on a clustered item whose cluster shrank to nothing
\* in the recent window: the growth rate is -1 and the clamp acts.
C31_Witness ==
    /\ score_out # NoScore
    /\ score_in.cluster = FoundCluster(11)
    /\ score_in.raises = "none"
    /\ score_in.recent_count = 0
    /\ score_in.previous_count = 2
    /\ MomentumOfCall = 0

\* C10: every score the scorer computes and persists lies in [0, 1].
C10_ScoreBounded ==
    score_out # NoScore => score_out \in 0..1000

\* A score computed from labels, a cluster and a signal at its error default.
C10_Witness ==
    /\ score_out # NoScore
    /\ score_in.rows # <<>>
    /\ score_in.cluster.ref = "found"
    /\ score_in.raises # "none"

----------------------------------------------------------------------------
\* C32: a worker that receives the stop signal while it processes an item
\* completes that item before it exits: it leaves its loop only from between
\* two items, and once it has left it starts no further item.
C32_CooperativeShutdown ==
    [][\A w \in IngestWorkers :
          /\ (ingest[w].pc # "stopped" /\ ingest'[w].pc = "stopped") =>
                ingest[w].pc = "idle"
          /\ ingest[w].pc = "stopped" => ingest'[w].pc = "stopped"]_vars

\* C33: when the scorer processes an item whose cluster_id references no
\* cluster row, the step is aborted: no priority score is persisted for it.
C33_MissingClusterAborts ==
    score_in.cluster = MissingCluster => score_out = NoScore

\* The initiatives that escalations of an item created.
CreatedFor(id) == {i \in DOMAIN created_for : created_for[i] = id}

C35_AssignmentStable ==
    [][\A id \in DOMAIN feedback :
          feedback[id].cluster_id # NULL =>
              feedback'[id].cluster_id = feedback[id].cluster_id]_vars

\* C36: classifier labels are stored once per item: whatever the number of
\* passes of the NLU worker, feedback_label holds at most one row per pair of
\* item and label.
C36_LabelsStoredOnce ==
    \A i, j \in DOMAIN feedback_label :
        (/\ feedback_label[i].feedback_id = feedback_label[j].feedback_id
         /\ feedback_label[i].label = feedback_label[j].label) => i = j

\* C37: every item is eventually clustered: with the three workers running
\* and no failure, every stored item with a non-empty clean text eventually
\* has a cluster_id, and no step takes it out of status new before it has one.
C37_EventuallyClustered ==
    /\ \A id \in 1..MaxFeedback :
          (id \in DOMAIN feedback /\ feedback[id].text_clean # "")
              ~> (id \in DOMAIN feedback /\ feedback[id].cluster_id # NULL)
    /\ [][\A id \in DOMAIN feedback :
             (/\ feedback[id].text_clean # ""
              /\ feedback[id].status = "new"
              /\ feedback'[id].status # "new") => feedback[id].cluster_id # NULL]_vars

\* The item is what the query of the actions worker selects.
Actionable(id) ==
    /\ id \in DOMAIN feedback
    /\ feedback[id].status = "new"
    /\ feedback[id].priority_score # NoScore

\* C38: every scored item is eventually triaged: with the actions worker
\* running, every item in status new that has a score eventually is triaged
\* or resolved, with JIRA configured or not, and the worker is idle again
\* once no such item remains.
C38_EventuallyTriaged ==
    /\ \A id \in 1..MaxFeedback :
          Actionable(id)
              ~> (id \in DOMAIN feedback /\ feedback[id].status \in {"triaged", "resolved"})
    /\ (\A id \in 1..MaxFeedback : ~Actionable(id)) ~> (act["a1"].pc = "idle")

====
